---- MODULE Spec2Model ----
(***************************************************************************)
(* Model of the MCP authorization layer of typescript-sdk:                 *)
(*   - ProxyOAuthServerProvider, the delegating provider, in its two       *)
(*     versions: the one configured by endpoint URLs                       *)
(*     (src/server/auth/providers/proxyProvider.ts) and the one that       *)
(*     lazily fetches the upstream metadata (unnamed/part_004);            *)
(*   - requireBearerAuth, the bearer-auth middleware (unnamed/part_000);   *)
(*   - mcpAuthRouter and metadataHandler, in their versions                *)
(*     (unnamed/part_002, part_003, part_005, proxyProvider.ts:240-317).   *)
(*                                                                         *)
(* JavaScript strings whose content the code inspects or transforms are    *)
(* sequences of symbols (one-character strings, or an opaque atom such as  *)
(* an origin-and-path); the empty string is the empty sequence.            *)
(***************************************************************************)
EXTENDS Integers, Sequences, FiniteSets, TLC

VARIABLES
    providerClass,     \* "endpoints" (proxyProvider.ts) or "lazy" (part_004)
    endpoints,         \* this._endpoints
    metadataUrl,       \* this._metadataUrl (part_004 only)
    revokeTokenField,  \* whether the constructor assigned this.revokeToken
    cachedMetadata,    \* this._metadata (part_004 only)
    calls,             \* the provider operations in flight, one per caller
    requiredScopes,    \* requireBearerAuth: options.requiredScopes ?? []
    mwPc,              \* the middleware's place: "idle", "verifying", "done"
    authHeader,        \* req.headers.authorization of the request in hand
    reqAuth,           \* req.auth
    verifyCalls,       \* the tokens verifyToken was called with, in order
    verification,      \* what verifyToken settled with
    nextCalls,         \* how often next() was called
    authSeenByNext,    \* req.auth as next() found it when it was called
    nextOutcome,       \* how next() ended: "none", "returned" or an error
    responses,         \* the responses written to res, in order
    routerVersion,     \* which mcpAuthRouter: "part_002" or "part_003"
    handlerVersion,    \* which metadataHandler the router is built with
    issuerUrl,         \* options.issuerUrl
    serviceDocumentationUrl,  \* options.serviceDocumentationUrl
    registerClientField,  \* whether the clientsStore of a provider of another
                          \* class has registerClient
    routerPc,          \* "unbuilt", "built", or "threw"
    routerError,       \* the message of the Error mcpAuthRouter threw
    routes,            \* the paths the router mounted, in order
    servedMetadata,    \* the metadata object the metadata route serves
    metadataResponse   \* the last response of the metadata route

providerVars == <<providerClass, endpoints, metadataUrl, revokeTokenField,
                  cachedMetadata, calls>>

bearerVars == <<requiredScopes, mwPc, authHeader, reqAuth, verifyCalls,
                verification, nextCalls, authSeenByNext, nextOutcome, responses>>

routerVars == <<routerVersion, handlerVersion, issuerUrl, serviceDocumentationUrl,
                registerClientField, routerPc, routerError, routes, servedMetadata,
                metadataResponse>>

\* what the provider's actions leave alone, what the middleware's do and what
\* the router's do
notProviderVars == <<bearerVars, routerVars>>
notBearerVars == <<providerVars, routerVars>>
notRouterVars == <<providerVars, bearerVars>>

vars == <<providerVars, bearerVars, routerVars>>

----------------------------------------------------------------------------
(* JavaScript values *)

\* undefined, where a string is expected: a sequence no string of the model equals
Undefined == <<"undefined">>

\* the truthiness of an optional string: undefined and "" are falsy
Truthy(s) == s # Undefined /\ s # <<>>

\* a || b on optional strings
OrElse(a, b) == IF Truthy(a) THEN a ELSE b

RECURSIVE Join(_, _)
\* Array.prototype.join
Join(ss, sep) ==
    IF ss = <<>> THEN <<>>
    ELSE IF Len(ss) = 1 THEN Head(ss)
    ELSE Head(ss) \o sep \o Join(Tail(ss), sep)

\* the index of the first occurrence of symbol ch in s, or 0
IndexOf(s, ch) ==
    IF \E i \in 1..Len(s) : s[i] = ch
    THEN CHOOSE i \in 1..Len(s) : s[i] = ch /\ \A j \in 1..(i - 1) : s[j] # ch
    ELSE 0

RECURSIVE Split(_, _)
\* String.prototype.split on a one-symbol separator
Split(s, sep) ==
    LET i == IndexOf(s, sep)
    IN  IF i = 0 THEN <<s>>
        ELSE <<SubSeq(s, 1, i - 1)>> \o Split(SubSeq(s, i + 1, Len(s)), sep)

----------------------------------------------------------------------------
(* URLSearchParams and URL *)

\* application/x-www-form-urlencoded percent-encoding of one symbol, as
\* URLSearchParams.toString() does it: a space becomes "+", the reserved
\* symbols become %XX, every other symbol stays
EncodeSymbol(ch) ==
    CASE ch = " " -> <<"+">>
      [] ch = "&" -> <<"%", "2", "6">>
      [] ch = "=" -> <<"%", "3", "D">>
      [] ch = "+" -> <<"%", "2", "B">>
      [] ch = "%" -> <<"%", "2", "5">>
      [] ch = "#" -> <<"%", "2", "3">>
      [] ch = "?" -> <<"%", "3", "F">>
      [] ch = ":" -> <<"%", "3", "A">>
      [] ch = "/" -> <<"%", "2", "F">>
      [] OTHER -> <<ch>>

RECURSIVE FormEncode(_)
FormEncode(s) == IF s = <<>> THEN <<>> ELSE EncodeSymbol(Head(s)) \o FormEncode(Tail(s))

\* new URLSearchParams(): a list of name/value pairs
ParamsOf(pairs) == pairs

\* URLSearchParams.prototype.set: the first pair of that name takes the value
\* and the others of that name go; a new name is appended
ParamsSet(ps, k, v) ==
    IF \E i \in 1..Len(ps) : ps[i][1] = k
    THEN LET first == CHOOSE i \in 1..Len(ps) :
                          ps[i][1] = k /\ \A j \in 1..(i - 1) : ps[j][1] # k
             keep == SelectSeq([i \in 1..Len(ps) |-> <<i, ps[i]>>],
                               LAMBDA e : e[2][1] # k \/ e[1] = first)
         IN  [i \in 1..Len(keep) |->
                 IF keep[i][1] = first THEN <<k, v>> ELSE keep[i][2]]
    ELSE Append(ps, <<k, v>>)

\* URLSearchParams.prototype.toString
ParamsToString(ps) ==
    Join([i \in 1..Len(ps) |-> FormEncode(ps[i][1]) \o <<"=">> \o FormEncode(ps[i][2])],
         <<"&">>)

\* new URL(s) for an absolute URL s: the part before the query, the query
\* (with its "?") and the fragment (with its "#")
ParseUrl(s) ==
    LET h == IndexOf(s, "#")
        beforeHash == IF h = 0 THEN s ELSE SubSeq(s, 1, h - 1)
        q == IndexOf(beforeHash, "?")
    IN  [base   |-> IF q = 0 THEN beforeHash ELSE SubSeq(beforeHash, 1, q - 1),
         search |-> IF q = 0 THEN <<>> ELSE SubSeq(beforeHash, q, Len(beforeHash)),
         hash   |-> IF h = 0 THEN <<>> ELSE SubSeq(s, h, Len(s))]

\* the setter of URL.search: "" drops the query, a value gets its "?"
SetSearch(u, str) ==
    [u EXCEPT !.search = IF str = <<>> THEN <<>>
                         ELSE IF Head(str) = "?" THEN str ELSE <<"?">> \o str]

\* URL.prototype.toString
UrlToString(u) == u.base \o u.search \o u.hash

----------------------------------------------------------------------------
(* Values the operations are called with, and what the upstream answers *)

\* OAuthClientInformationFull: a client with a secret, one without, one whose
\* secret is the empty string
Clients ==
    { [client_id |-> <<"c", "1">>, client_secret |-> <<"s", "k">>],
      [client_id |-> <<"c", "2">>, client_secret |-> Undefined],
      [client_id |-> <<"c", "3">>, client_secret |-> <<>>] }

\* AuthorizationParams: state and scopes are optional
AuthorizationParamsSet ==
    [ redirectUri   : { <<"u", ":", "/", "c", "b">> },
      codeChallenge : { <<"a", "b", "c">> },
      state         : { Undefined, <<>>, <<"x", "&", "y">> },
      scopes        : { Undefined, <<>>, << <<"r">> >>, << <<"r">>, <<"w">> >> } ]

AuthorizationCodes == { <<"c", "o", "d", "e">> }
RefreshTokens == { <<"r", "t">> }
RefreshScopes == { Undefined, <<>>, << <<"r">>, <<"w">> >> }

\* OAuthTokenRevocationRequest
RevocationRequests ==
    [ token : { <<"t", "k">> }, token_type_hint : { Undefined, <<"a", "t">> } ]

\* the HTTP status codes the upstream answers with
Statuses == { 200, 204, 302, 400, 500 }

\* response bodies: a token set, a JSON object that is no token set, a client
\* record, and a body that is no JSON
TokensBody == [json |-> TRUE,
               data |-> [access_token |-> <<"A", "T">>, token_type |-> <<"Bearer">>]]
NotTokensBody == [json |-> TRUE, data |-> [token_type |-> <<"Bearer">>]]
ClientBody == [json |-> TRUE,
               data |-> [client_id |-> <<"n", "c">>, client_secret |-> Undefined]]
NotJsonBody == [json |-> FALSE]


\* JSON null, and the undefined of a value that is no string
JsonNull == [type |-> "null"]
NoValue == [type |-> "undefined"]

\* OAuthMetadata documents of the upstream: one naming every endpoint, one
\* naming none
FullMetadata == [authorization_endpoint |-> <<"M_AUTH">>,
                 token_endpoint |-> <<"M_TOKEN">>,
                 revocation_endpoint |-> <<"M_REVOKE">>,
                 registration_endpoint |-> <<"M_REGISTER">>]
BareMetadata == [issuer |-> <<"M_ISSUER">>]
MetadataBodies == { [json |-> TRUE, data |-> FullMetadata],
                    [json |-> TRUE, data |-> BareMetadata],
                    [json |-> TRUE, data |-> JsonNull],
                    NotJsonBody }

\* the bodies an endpoint answers a 2xx with, by the operation that asks
BodiesFor(op) ==
    CASE op \in {"exchangeAuthorizationCode", "exchangeRefreshToken"} ->
            { TokensBody, NotTokensBody, NotJsonBody }
      [] op = "registerClient" -> { ClientBody, NotJsonBody }
      [] op = "getMetadata" -> MetadataBodies
      [] OTHER -> { NotJsonBody }

\* Response.ok
OkStatus(status) == status >= 200 /\ status <= 299

\* what a fetch settles with: a response, or a rejection (the network failed);
\* the body of a response that is not ok is never read
FetchResults(op) ==
    { r \in [ type : {"response"}, status : Statuses, body : BodiesFor(op) ] :
          OkStatus(r.status) \/ r.body = NotJsonBody }
      \cup { [type |-> "failure"] }

Ok(response) == OkStatus(response.status)

----------------------------------------------------------------------------
(* Promise outcomes *)

Pending == [kind |-> "pending"]
Resolved(v) == [kind |-> "resolved", value |-> v]
ResolvedVoid == [kind |-> "resolved", value |-> [type |-> "undefined"]]
\* throw new Error(text), and the errors the runtime raises
Thrown(name, text) == [kind |-> "rejected", error |-> [name |-> name, text |-> text]]
\* throw new ServerError(`${text}${response.status}`)
ThrownServerError(text, status) ==
    [kind |-> "rejected",
     error |-> [name |-> "ServerError", text |-> text, status |-> status]]

\* a caller with no operation in flight
IdleCall == [op |-> "none", pc |-> "idle"]

\* an operation that settled without suspending
Settled(op, client, args, requests, redirects, outcome) ==
    [op |-> op, pc |-> "done", client |-> client, args |-> args,
     requests |-> requests, responses |-> <<>>, redirects |-> redirects,
     outcome |-> outcome]

\* an operation suspended at `await fetch(request)`
Fetching(op, client, args, requests, request) ==
    [op |-> op, pc |-> "fetch", client |-> client, args |-> args,
     requests |-> Append(requests, request), responses |-> <<>>, redirects |-> <<>>,
     outcome |-> Pending]

FormPost(url, params) ==
    [url |-> url, method |-> "POST",
     contentType |-> "application/x-www-form-urlencoded", body |-> params]

JsonPost(url, value) ==
    [url |-> url, method |-> "POST", contentType |-> "application/json",
     body |-> value]

----------------------------------------------------------------------------
(* ProxyOAuthServerProvider, configured by endpoint URLs (proxyProvider.ts) *)

\* ProxyEndpoints: every URL is optional
EndpointConfigs ==
    [ authorizationUrl : { Undefined, <<>>, <<"AUTH">>,
                           <<"AUTH", "?", "k", "=", "v", "#", "f">> },
      tokenUrl         : { Undefined, <<>>, <<"TOKEN">> },
      revocationUrl    : { Undefined, <<>>, <<"REVOKE">> },
      registrationUrl  : { Undefined, <<>>, <<"REGISTER">> } ]

\* the constructor: this.revokeToken is assigned only under a truthy
\* options.endpoints.revocationUrl
ConstructorAssignsRevokeToken(options) == Truthy(options.revocationUrl)

\* the clientsStore getter: registerClient is spread into the store only under
\* a truthy registrationUrl
ClientsStoreHasRegisterClient(eps) == Truthy(eps.registrationUrl)

\* AuthorizeRedirectUrl with `if (params.scopes)` for `if (params.scopes?.length)`:
\* an empty list of scopes sends an empty scope
AuthorizeRedirectUrlEmptyScope(authorizationUrl, client, params) ==
    LET targetUrl == ParseUrl(authorizationUrl)
        required == ParamsOf(<< <<<<"client_id">>, client.client_id>>,
                                <<<<"response_type">>, <<"code">>>>,
                                <<<<"redirect_uri">>, params.redirectUri>>,
                                <<<<"code_challenge">>, params.codeChallenge>>,
                                <<<<"code_challenge_method">>, <<"S256">>>> >>)
        withState == IF Truthy(params.state)
                     THEN ParamsSet(required, <<"state">>, params.state)
                     ELSE required
        searchParams ==
            IF params.scopes # Undefined
            THEN ParamsSet(withState, <<"scope">>, Join(params.scopes, <<" ">>))
            ELSE withState
    IN  UrlToString(SetSearch(targetUrl, ParamsToString(searchParams)))

\* the redirect of authorize: the required parameters, state and scope when
\* truthy / non-empty, set as the query of the authorization URL
AuthorizeRedirectUrl(authorizationUrl, client, params) ==
    LET targetUrl == ParseUrl(authorizationUrl)
        required == ParamsOf(<< <<<<"client_id">>, client.client_id>>,
                                <<<<"response_type">>, <<"code">>>>,
                                <<<<"redirect_uri">>, params.redirectUri>>,
                                <<<<"code_challenge">>, params.codeChallenge>>,
                                <<<<"code_challenge_method">>, <<"S256">>>> >>)
        withState == IF Truthy(params.state)
                     THEN ParamsSet(required, <<"state">>, params.state)
                     ELSE required
        searchParams ==
            IF params.scopes # Undefined /\ Len(params.scopes) # 0
            THEN ParamsSet(withState, <<"scope">>, Join(params.scopes, <<" ">>))
            ELSE withState
    IN  UrlToString(SetSearch(targetUrl, ParamsToString(searchParams)))

\* authorize: no await before the redirect, so the call settles in one step
ProxyAuthorizeCall(client, params) ==
    LET authorizationUrl == endpoints.authorizationUrl
    IN  IF ~Truthy(authorizationUrl)
        THEN Settled("authorize", client, params, <<>>, <<>>,
                     Thrown("Error", "No authorization endpoint configured"))
        ELSE Settled("authorize", client, params, <<>>,
                     <<AuthorizeRedirectUrl(authorizationUrl, client, params)>>,
                     ResolvedVoid)

\* AuthorizationCodeForm that leaves client_secret out for a client without one
AuthorizationCodeFormWithoutEmptySecret(client, authorizationCode) ==
    ParamsOf(<< <<<<"grant_type">>, <<"authorization_code">>>>,
                <<<<"client_id">>, client.client_id>> >>
             \o (IF Truthy(client.client_secret)
                 THEN << <<<<"client_secret">>, client.client_secret>> >> ELSE <<>>)
             \o << <<<<"code">>, authorizationCode>> >>)

\* the form of exchangeAuthorizationCode
AuthorizationCodeForm(client, authorizationCode) ==
    ParamsOf(<< <<<<"grant_type">>, <<"authorization_code">>>>,
                <<<<"client_id">>, client.client_id>>,
                <<<<"client_secret">>, OrElse(client.client_secret, <<>>)>>,
                <<<<"code">>, authorizationCode>> >>)

\* exchangeAuthorizationCode without its check of the token URL
ProxyExchangeAuthorizationCodeCallUnchecked(client, authorizationCode) ==
    Fetching("exchangeAuthorizationCode", client, authorizationCode, <<>>,
             FormPost(endpoints.tokenUrl, AuthorizationCodeForm(client, authorizationCode)))

\* exchangeAuthorizationCode, up to its await of fetch
ProxyExchangeAuthorizationCodeCall(client, authorizationCode) ==
    LET tokenUrl == endpoints.tokenUrl
    IN  IF ~Truthy(tokenUrl)
        THEN Settled("exchangeAuthorizationCode", client, authorizationCode, <<>>, <<>>,
                     Thrown("Error", "No token endpoint configured"))
        ELSE Fetching("exchangeAuthorizationCode", client, authorizationCode, <<>>,
                      FormPost(tokenUrl, AuthorizationCodeForm(client, authorizationCode)))

\* the form of exchangeRefreshToken
RefreshTokenForm(client, refreshToken, scopes) ==
    LET params == ParamsOf(<< <<<<"grant_type">>, <<"refresh_token">>>>,
                              <<<<"client_id">>, client.client_id>>,
                              <<<<"client_secret">>, OrElse(client.client_secret, <<>>)>>,
                              <<<<"refresh_token">>, refreshToken>> >>)
    IN  IF scopes # Undefined /\ Len(scopes) # 0
        THEN ParamsSet(params, <<"scope">>, Join(scopes, <<" ">>))
        ELSE params

\* exchangeRefreshToken, up to its await of fetch
ProxyExchangeRefreshTokenCall(client, refreshToken, scopes) ==
    LET tokenUrl == endpoints.tokenUrl
        args == [refreshToken |-> refreshToken, scopes |-> scopes]
    IN  IF ~Truthy(tokenUrl)
        THEN Settled("exchangeRefreshToken", client, args, <<>>, <<>>,
                     Thrown("Error", "No token endpoint configured"))
        ELSE Fetching("exchangeRefreshToken", client, args, <<>>,
                      FormPost(tokenUrl, RefreshTokenForm(client, refreshToken, scopes)))

\* the form of revokeToken
RevocationForm(client, request) ==
    LET params == ParamsSet(ParamsSet(ParamsSet(ParamsOf(<<>>),
                      <<"token">>, request.token),
                      <<"client_id">>, client.client_id),
                      <<"client_secret">>, OrElse(client.client_secret, <<>>))
    IN  IF Truthy(request.token_type_hint)
        THEN ParamsSet(params, <<"token_type_hint">>, request.token_type_hint)
        ELSE params

\* revokeToken (the closure the constructor assigns), up to its await of fetch
ProxyRevokeTokenCall(client, request) ==
    LET revocationUrl == endpoints.revocationUrl
    IN  IF ~Truthy(revocationUrl)
        THEN Settled("revokeToken", client, request, <<>>, <<>>,
                     Thrown("Error", "No revocation endpoint configured"))
        ELSE Fetching("revokeToken", client, request, <<>>,
                      FormPost(revocationUrl, RevocationForm(client, request)))

\* clientsStore.registerClient, up to its await of fetch
ProxyRegisterClientCall(client) ==
    Fetching("registerClient", client, client, <<>>,
             JsonPost(endpoints.registrationUrl, client))

\* `Token exchange failed: `, ... : the text of the ServerError of each operation
FailureText(op) ==
    CASE op = "exchangeAuthorizationCode" -> "Token exchange failed: "
      [] op = "exchangeRefreshToken" -> "Token refresh failed: "
      [] op = "revokeToken" -> "Token revocation failed: "
      [] op = "registerClient" -> "Client registration failed: "
      [] op = "getMetadata" -> "Failed to fetch OAuth metadata: "

\* OAuthTokensSchema.parse: access_token and token_type are required strings
IsOAuthTokens(data) == {"access_token", "token_type"} \subseteq DOMAIN data

----------------------------------------------------------------------------
(* The steps after an await, for both versions of the provider *)

\* the last response a call received
LastResponse(call) == call.responses[Len(call.responses)]

\* a call that settles now
Finish(call, outcome) == [call EXCEPT !.pc = "done", !.outcome = outcome]

\* AfterFetch without `if (!response.ok) throw`
AfterFetchIgnoringStatus(call, result) ==
    LET got == [call EXCEPT !.responses = Append(@, result)]
    IN  IF result.type = "failure"
        THEN Finish(got, Thrown("TypeError", "fetch failed"))
        ELSE IF call.op = "revokeToken"
        THEN Finish(got, ResolvedVoid)
        ELSE [got EXCEPT !.pc = "json"]

\* AfterFetch that sends the request again after a response that is not ok
AfterFetchRetrying(call, result) ==
    LET got == [call EXCEPT !.responses = Append(@, result)]
    IN  IF result.type = "failure"
        THEN Finish(got, Thrown("TypeError", "fetch failed"))
        ELSE IF ~Ok(result)
        THEN [got EXCEPT !.requests = Append(@, call.requests[Len(call.requests)])]
        ELSE IF call.op = "revokeToken"
        THEN Finish(got, ResolvedVoid)
        ELSE [got EXCEPT !.pc = "json"]

\* after `await fetch(...)` of an endpoint call: a rejection of fetch is the
\* call's; a response that is not ok throws ServerError with its status;
\* revokeToken returns, the others go on to response.json()
AfterFetch(call, result) ==
    LET got == [call EXCEPT !.responses = Append(@, result)]
    IN  IF result.type = "failure"
        THEN Finish(got, Thrown("TypeError", "fetch failed"))
        ELSE IF ~Ok(result)
        THEN Finish(got, ThrownServerError(FailureText(call.op), result.status))
        ELSE IF call.op = "revokeToken"
        THEN Finish(got, ResolvedVoid)
        ELSE [got EXCEPT !.pc = "json"]

\* after `await response.json()`: the token exchanges of proxyProvider.ts
\* return OAuthTokensSchema.parse(data); registerClient, and every operation
\* of part_004, return the data as it is
AfterJson(class, call) ==
    LET body == LastResponse(call).body
    IN  IF ~body.json
        THEN Finish(call, Thrown("SyntaxError", "Unexpected token in JSON"))
        ELSE IF class = "endpoints"
                /\ call.op \in {"exchangeAuthorizationCode", "exchangeRefreshToken"}
                /\ ~IsOAuthTokens(body.data)
        THEN Finish(call, Thrown("ZodError", "invalid tokens"))
        ELSE Finish(call, Resolved(body.data))

----------------------------------------------------------------------------
(* ProxyOAuthServerProvider with the lazily fetched metadata (part_004) *)

\* ProxyOptions of part_004 that the constructor accepts: it throws when
\* neither metadataUrl nor endpoints is given
LazyEndpointConfigs ==
    { [authorizationUrl |-> Undefined, tokenUrl |-> Undefined,
       revocationUrl |-> Undefined, registrationUrl |-> Undefined],
      [authorizationUrl |-> <<"AUTH">>, tokenUrl |-> <<"TOKEN">>,
       revocationUrl |-> Undefined, registrationUrl |-> Undefined],
      [authorizationUrl |-> <<"AUTH">>, tokenUrl |-> <<"TOKEN">>,
       revocationUrl |-> <<"REVOKE">>, registrationUrl |-> <<"REGISTER">>] }

LazyMetadataUrls == { Undefined, <<"METADATA">> }

\* the falsiness of this._metadata
NoMetadata(m) == m = NoValue \/ m = JsonNull

\* metadata?.field
MetadataField(m, field) ==
    IF NoMetadata(m) THEN Undefined
    ELSE IF field \in DOMAIN m THEN m[field] ELSE Undefined

\* the body of an operation of part_004 after `await this.getMetadata()`
LazyOperationBody(call, metadata) ==
    LET op == call.op
        client == call.client
    IN  CASE op = "authorize" ->
               LET authorizationUrl == OrElse(endpoints.authorizationUrl,
                                         MetadataField(metadata, "authorization_endpoint"))
               IN  IF ~Truthy(authorizationUrl)
                   THEN Finish(call, Thrown("Error", "No authorization endpoint configured"))
                   ELSE [Finish(call, ResolvedVoid) EXCEPT !.redirects =
                            <<AuthorizeRedirectUrl(authorizationUrl, client, call.args)>>]
          [] op = "exchangeAuthorizationCode" ->
               LET tokenUrl == OrElse(endpoints.tokenUrl,
                                      MetadataField(metadata, "token_endpoint"))
               IN  IF ~Truthy(tokenUrl)
                   THEN Finish(call, Thrown("Error", "No token endpoint configured"))
                   ELSE [call EXCEPT !.pc = "fetch", !.requests = Append(@,
                            FormPost(tokenUrl, AuthorizationCodeForm(client, call.args)))]
          [] op = "exchangeRefreshToken" ->
               LET tokenUrl == OrElse(endpoints.tokenUrl,
                                      MetadataField(metadata, "token_endpoint"))
               IN  IF ~Truthy(tokenUrl)
                   THEN Finish(call, Thrown("Error", "No token endpoint configured"))
                   ELSE [call EXCEPT !.pc = "fetch", !.requests = Append(@,
                            FormPost(tokenUrl, RefreshTokenForm(client,
                                call.args.refreshToken, call.args.scopes)))]
          [] op = "revokeToken" ->
               LET revokeUrl == OrElse(endpoints.revocationUrl,
                                       MetadataField(metadata, "revocation_endpoint"))
               IN  IF ~Truthy(revokeUrl)
                   THEN Finish(call, Thrown("Error", "No revocation endpoint configured"))
                   ELSE [call EXCEPT !.pc = "fetch", !.requests = Append(@,
                            FormPost(revokeUrl, RevocationForm(client, call.args)))]
          [] op = "registerClient" ->
               LET registerUrl == OrElse(endpoints.registrationUrl,
                                         MetadataField(metadata, "registration_endpoint"))
               IN  IF ~Truthy(registerUrl)
                   THEN Finish(call, Thrown("Error", "Client registration not supported"))
                   ELSE [call EXCEPT !.pc = "fetch", !.requests = Append(@,
                            JsonPost(registerUrl, client))]

\* an operation of part_004 from its call to its first suspension:
\* getMetadata returns undefined without a metadataUrl, fetches when
\* this._metadata is falsy, and returns this._metadata otherwise
LazyOperationCall(op, client, args) ==
    LET call == [op |-> op, pc |-> "start", client |-> client, args |-> args,
                 requests |-> <<>>, responses |-> <<>>, redirects |-> <<>>,
                 outcome |-> Pending]
    IN  IF ~Truthy(metadataUrl)
        THEN LazyOperationBody(call, NoValue)
        ELSE IF NoMetadata(cachedMetadata)
        THEN [call EXCEPT !.pc = "metaFetch",
                          !.requests = <<[url |-> metadataUrl, method |-> "GET"]>>]
        ELSE LazyOperationBody(call, cachedMetadata)

\* getMetadata after `await fetch(this._metadataUrl)`
AfterMetadataFetch(call, result) ==
    LET got == [call EXCEPT !.responses = Append(@, result)]
    IN  IF result.type = "failure"
        THEN Finish(got, Thrown("TypeError", "fetch failed"))
        ELSE IF ~Ok(result)
        THEN Finish(got, ThrownServerError(FailureText("getMetadata"), result.status))
        ELSE [got EXCEPT !.pc = "metaJson"]

----------------------------------------------------------------------------
(* The optional capabilities of a provider *)

\* provider.revokeToken is defined: in proxyProvider.ts a field the
\* constructor may assign, in part_004 a method of the class, in a provider
\* of another class ("custom") a field that is there or not
HasRevokeToken ==
    IF providerClass = "lazy" THEN TRUE ELSE revokeTokenField

\* provider.clientsStore.registerClient is defined: in proxyProvider.ts under
\* a registrationUrl, in part_004 in every store the getter returns
HasRegisterClient ==
    CASE providerClass = "endpoints" -> ClientsStoreHasRegisterClient(endpoints)
      [] providerClass = "lazy" -> TRUE
      [] providerClass = "custom" -> registerClientField

----------------------------------------------------------------------------
(* The provider's operations as actions *)

\* the callers of a provider of proxyProvider.ts, whose operations share no
\* mutable state, and of a provider of part_004, whose operations share
\* this._metadata
ProxyCallers == { "a" }
LazyCallers == { "a", "b" }

\* the inputs of the operations of part_004
LazyClients == { cl \in Clients : Truthy(cl.client_secret) }
LazyAuthorizationParams ==
    { ps \in AuthorizationParamsSet : Truthy(ps.state) /\ ps.scopes = << <<"r">>, <<"w">> >> }
LazyRefreshScopes == { Undefined }
LazyRevocationRequests == { rq \in RevocationRequests : rq.token_type_hint = Undefined }

Starts(c, call) ==
    /\ calls[c].pc = "idle"
    /\ calls' = [calls EXCEPT ![c] = call]
    /\ UNCHANGED <<providerClass, endpoints, metadataUrl, revokeTokenField,
                   cachedMetadata, notProviderVars>>

ProxyAuthorize ==
    \E c \in DOMAIN calls, client \in Clients, params \in AuthorizationParamsSet :
        /\ providerClass = "endpoints"
        /\ Starts(c, ProxyAuthorizeCall(client, params))

\* the codes exchangeAuthorizationCode of proxyProvider.ts is called with, one
\* of them with characters a form encodes; and what a caller may pass as a
\* third argument, the PKCE verifier, for which the method declares no
\* parameter
ProxyAuthorizationCodes == AuthorizationCodes \cup { <<"a", "&", "b", "=", " ">> }
CodeVerifiers == { Undefined, <<"v", "e", "r">> }

\* a call that was passed an argument its method does not declare
WithIgnoredArgument(call, argument) ==
    [f \in DOMAIN call \cup { "ignored" } |->
        IF f = "ignored" THEN argument ELSE call[f]]

ProxyExchangeAuthorizationCode ==
    \E c \in DOMAIN calls, client \in Clients, code \in ProxyAuthorizationCodes,
       codeVerifier \in CodeVerifiers :
        /\ providerClass = "endpoints"
        /\ Starts(c, WithIgnoredArgument(ProxyExchangeAuthorizationCodeCall(client, code),
                                         codeVerifier))

ProxyExchangeRefreshToken ==
    \E c \in DOMAIN calls, client \in Clients, refreshToken \in RefreshTokens,
       scopes \in RefreshScopes :
        /\ providerClass = "endpoints"
        /\ Starts(c, ProxyExchangeRefreshTokenCall(client, refreshToken, scopes))

\* provider.revokeToken can be called only where the constructor assigned it
ProxyRevokeToken ==
    \E c \in DOMAIN calls, client \in Clients, request \in RevocationRequests :
        /\ providerClass = "endpoints"
        /\ revokeTokenField
        /\ Starts(c, ProxyRevokeTokenCall(client, request))

\* provider.clientsStore.registerClient can be called only where the getter
\* puts it in the store
ProxyRegisterClient ==
    \E c \in DOMAIN calls, client \in Clients :
        /\ providerClass = "endpoints"
        /\ ClientsStoreHasRegisterClient(endpoints)
        /\ Starts(c, ProxyRegisterClientCall(client))

\* the upstream answers the fetch of an endpoint call, or the fetch fails
FetchSettles ==
    \E c \in DOMAIN calls :
        /\ calls[c].pc = "fetch"
        /\ \E result \in FetchResults(calls[c].op) :
               calls' = [calls EXCEPT ![c] = AfterFetch(calls[c], result)]
        /\ UNCHANGED <<providerClass, endpoints, metadataUrl, revokeTokenField,
                       cachedMetadata, notProviderVars>>

\* response.json() settles
JsonSettles ==
    \E c \in DOMAIN calls :
        /\ calls[c].pc = "json"
        /\ calls' = [calls EXCEPT ![c] = AfterJson(providerClass, calls[c])]
        /\ UNCHANGED <<providerClass, endpoints, metadataUrl, revokeTokenField,
                       cachedMetadata, notProviderVars>>

\* the caller takes the outcome of its operation
Returns ==
    \E c \in DOMAIN calls :
        /\ calls[c].pc = "done"
        /\ calls' = [calls EXCEPT ![c] = IdleCall]
        /\ UNCHANGED <<providerClass, endpoints, metadataUrl, revokeTokenField,
                       cachedMetadata, notProviderVars>>

LazyAuthorize ==
    \E c \in DOMAIN calls, client \in LazyClients, params \in LazyAuthorizationParams :
        /\ providerClass = "lazy"
        /\ Starts(c, LazyOperationCall("authorize", client, params))

LazyExchangeAuthorizationCode ==
    \E c \in DOMAIN calls, client \in LazyClients, code \in AuthorizationCodes :
        /\ providerClass = "lazy"
        /\ Starts(c, LazyOperationCall("exchangeAuthorizationCode", client, code))

LazyExchangeRefreshToken ==
    \E c \in DOMAIN calls, client \in LazyClients, refreshToken \in RefreshTokens,
       scopes \in LazyRefreshScopes :
        /\ providerClass = "lazy"
        /\ Starts(c, LazyOperationCall("exchangeRefreshToken", client,
                        [refreshToken |-> refreshToken, scopes |-> scopes]))

LazyRevokeToken ==
    \E c \in DOMAIN calls, client \in LazyClients, request \in LazyRevocationRequests :
        /\ providerClass = "lazy"
        /\ Starts(c, LazyOperationCall("revokeToken", client, request))

LazyRegisterClient ==
    \E c \in DOMAIN calls, client \in LazyClients :
        /\ providerClass = "lazy"
        /\ Starts(c, LazyOperationCall("registerClient", client, client))

\* the upstream answers the fetch of getMetadata, or the fetch fails
MetadataFetchSettles ==
    \E c \in DOMAIN calls :
        /\ calls[c].pc = "metaFetch"
        /\ \E result \in FetchResults("getMetadata") :
               calls' = [calls EXCEPT ![c] = AfterMetadataFetch(calls[c], result)]
        /\ UNCHANGED <<providerClass, endpoints, metadataUrl, revokeTokenField,
                       cachedMetadata, notProviderVars>>

\* `this._metadata = await response.json()`, then the operation goes on with
\* the metadata
MetadataJsonSettles ==
    \E c \in DOMAIN calls :
        /\ calls[c].pc = "metaJson"
        /\ LET body == LastResponse(calls[c]).body
           IN  IF ~body.json
               THEN /\ calls' = [calls EXCEPT ![c] =
                           Finish(calls[c], Thrown("SyntaxError", "Unexpected token in JSON"))]
                    /\ UNCHANGED cachedMetadata
               ELSE /\ cachedMetadata' = body.data
                    /\ calls' = [calls EXCEPT ![c] = LazyOperationBody(calls[c], body.data)]
        /\ UNCHANGED <<providerClass, endpoints, metadataUrl, revokeTokenField,
                       notProviderVars>>

----------------------------------------------------------------------------
(* requireBearerAuth (part_000) *)

MaxHeaderLen == 4
MaxScopes == 2

\* the symbols of an Authorization header: words and the space
HeaderSymbols == { "Bearer", "BEARER", "Basic", "tok", " " }

\* the strings of at most n symbols of S
StringsUpTo(S, n) == UNION { [1..k -> S] : k \in 0..n }

\* req.headers.authorization: absent, or a string
AuthHeaders == { Undefined } \cup StringsUpTo(HeaderSymbols, MaxHeaderLen)

\* scopes are opaque strings; these two differ by case only
ScopeNames == { <<"read">>, <<"READ">> }
ScopeLists == StringsUpTo(ScopeNames, MaxScopes)

\* AuthInfo, as verifyToken resolves it; expired tells expiresAt from the
\* time of the request
AuthInfos ==
    [ clientId : { <<"c", "1">> }, scopes : ScopeLists, expired : BOOLEAN ]

\* the errors verifyToken, or next(), may raise: the OAuth errors of
\* errors.js, and errors that are none
OAuthErrorNames == { "InvalidTokenError", "InsufficientScopeError", "ServerError",
                     "InvalidRequestError" }
ErrorNames == OAuthErrorNames \cup { "Error" }

\* how next() ends: it returns, or the downstream throws into the try block
NextOutcomes == { "returned", "Error", "InvalidTokenError" }

\* String.prototype.toLowerCase, symbol by symbol
LowerSymbol(ch) ==
    CASE ch \in {"Bearer", "BEARER"} -> "bearer"
      [] ch = "Basic" -> "basic"
      [] OTHER -> ch

ToLowerCase(s) == [i \in 1..Len(s) |-> LowerSymbol(s[i])]

\* HasAllScopes with `some` for `every`
HasSomeScope(required, granted) ==
    \E i \in 1..Len(required) : \E j \in 1..Len(granted) : granted[j] = required[i]

\* requiredScopes.every(scope => authInfo.scopes.includes(scope))
HasAllScopes(required, granted) ==
    \A i \in 1..Len(required) : \E j \in 1..Len(granted) : granted[j] = required[i]

\* error.errorCode of the OAuth errors
ErrorCode(name) ==
    CASE name = "InvalidTokenError" -> "invalid_token"
      [] name = "InsufficientScopeError" -> "insufficient_scope"
      [] name = "ServerError" -> "server_error"
      [] name = "InvalidRequestError" -> "invalid_request"

\* error.toResponseObject()
ToResponseObject(error) ==
    [error |-> ErrorCode(error.name), error_description |-> error.text]

NoHeader == [set |-> FALSE]

\* ErrorResponse whose last branch answers with the error it caught
ErrorResponseRaw(error) ==
    IF error.name = "InvalidTokenError"
    THEN [status |-> 401,
          wwwAuthenticate |-> [set |-> TRUE, error |-> ErrorCode(error.name),
                               error_description |-> error.text],
          body |-> ToResponseObject(error)]
    ELSE IF error.name = "InsufficientScopeError"
    THEN [status |-> 403,
          wwwAuthenticate |-> [set |-> TRUE, error |-> ErrorCode(error.name),
                               error_description |-> error.text],
          body |-> ToResponseObject(error)]
    ELSE IF error.name = "ServerError"
    THEN [status |-> 500, wwwAuthenticate |-> NoHeader, body |-> ToResponseObject(error)]
    ELSE IF error.name \in OAuthErrorNames
    THEN [status |-> 400, wwwAuthenticate |-> NoHeader, body |-> ToResponseObject(error)]
    ELSE [status |-> 500, wwwAuthenticate |-> NoHeader,
          body |-> [error |-> "server_error", error_description |-> error.text]]

\* the catch block: one response by the class of the error
ErrorResponse(error) ==
    IF error.name = "InvalidTokenError"
    THEN [status |-> 401,
          wwwAuthenticate |-> [set |-> TRUE, error |-> ErrorCode(error.name),
                               error_description |-> error.text],
          body |-> ToResponseObject(error)]
    ELSE IF error.name = "InsufficientScopeError"
    THEN [status |-> 403,
          wwwAuthenticate |-> [set |-> TRUE, error |-> ErrorCode(error.name),
                               error_description |-> error.text],
          body |-> ToResponseObject(error)]
    ELSE IF error.name = "ServerError"
    THEN [status |-> 500, wwwAuthenticate |-> NoHeader, body |-> ToResponseObject(error)]
    ELSE IF error.name \in OAuthErrorNames
    THEN [status |-> 400, wwwAuthenticate |-> NoHeader, body |-> ToResponseObject(error)]
    ELSE [status |-> 500, wwwAuthenticate |-> NoHeader,
          body |-> ToResponseObject([name |-> "ServerError",
                                     text |-> "Internal Server Error"])]

\* HeaderCheck without its `!token` test
HeaderCheckWithoutToken(header) ==
    IF ~Truthy(header)
    THEN [ok |-> FALSE,
          error |-> [name |-> "InvalidTokenError", text |-> "Missing Authorization header"]]
    ELSE LET parts == Split(header, " ")
             type == parts[1]
             token == IF Len(parts) >= 2 THEN parts[2] ELSE Undefined
         IN  IF ToLowerCase(type) # <<"bearer">>
             THEN [ok |-> FALSE,
                   error |-> [name |-> "InvalidTokenError",
                              text |-> "Invalid Authorization header format, expected 'Bearer TOKEN'"]]
             ELSE [ok |-> TRUE, token |-> token]

\* the try block up to `await verifyToken(token)`: the error it throws, or
\* the token it verifies
HeaderCheck(header) ==
    IF ~Truthy(header)
    THEN [ok |-> FALSE,
          error |-> [name |-> "InvalidTokenError", text |-> "Missing Authorization header"]]
    ELSE LET parts == Split(header, " ")
             type == parts[1]
             token == IF Len(parts) >= 2 THEN parts[2] ELSE Undefined
         IN  IF ToLowerCase(type) # <<"bearer">> \/ ~Truthy(token)
             THEN [ok |-> FALSE,
                   error |-> [name |-> "InvalidTokenError",
                              text |-> "Invalid Authorization header format, expected 'Bearer TOKEN'"]]
             ELSE [ok |-> TRUE, token |-> token]

\* no request in hand
NoRequest ==
    /\ mwPc = "idle"
    /\ authHeader = Undefined
    /\ reqAuth = NoValue
    /\ verifyCalls = <<>>
    /\ verification = Pending
    /\ nextCalls = 0
    /\ authSeenByNext = NoValue
    /\ nextOutcome = "none"
    /\ responses = <<>>

\* `next(); req.auth = authInfo`, the two statements the other way round
NextThenAttach(before, authInfo) ==
    [auth |-> authInfo, seenByNext |-> before]

\* `req.auth = authInfo; next()`: req.auth after the two statements, and
\* req.auth as next() finds it
AttachThenNext(before, authInfo) ==
    [auth |-> authInfo, seenByNext |-> authInfo]

\* a request arrives: the header is checked and verifyToken is called
MwReceives ==
    \E header \in AuthHeaders :
        /\ mwPc = "idle"
        /\ authHeader' = header
        /\ LET checked == HeaderCheck(header)
           IN  IF checked.ok
               THEN /\ verifyCalls' = Append(verifyCalls, checked.token)
                    /\ mwPc' = "verifying"
                    /\ UNCHANGED responses
               ELSE /\ responses' = Append(responses, ErrorResponse(checked.error))
                    /\ mwPc' = "done"
                    /\ UNCHANGED verifyCalls
        /\ UNCHANGED <<requiredScopes, reqAuth, verification, nextCalls, authSeenByNext,
                       nextOutcome, notBearerVars>>

\* verifyToken resolves: the scopes are checked, req.auth is set and next()
\* is called, which returns or throws into the catch block
MwVerifyResolves ==
    \E authInfo \in AuthInfos, thrown \in NextOutcomes :
        /\ mwPc = "verifying"
        /\ verification' = Resolved(authInfo)
        /\ mwPc' = "done"
        /\ IF Len(requiredScopes) > 0 /\ ~HasAllScopes(requiredScopes, authInfo.scopes)
           THEN /\ thrown = "returned"
                /\ responses' = Append(responses, ErrorResponse(
                       [name |-> "InsufficientScopeError", text |-> "Insufficient scope"]))
                /\ UNCHANGED <<reqAuth, nextCalls, authSeenByNext, nextOutcome>>
           ELSE /\ reqAuth' = AttachThenNext(reqAuth, authInfo).auth
                /\ authSeenByNext' = AttachThenNext(reqAuth, authInfo).seenByNext
                /\ nextCalls' = nextCalls + 1
                /\ nextOutcome' = thrown
                /\ responses' = IF thrown = "returned" THEN responses
                                ELSE Append(responses, ErrorResponse(
                                         [name |-> thrown, text |-> "thrown by next"]))
        /\ UNCHANGED <<requiredScopes, authHeader, verifyCalls, notBearerVars>>

\* verifyToken rejects: the catch block answers
MwVerifyRejects ==
    \E name \in ErrorNames :
        /\ mwPc = "verifying"
        /\ LET error == [name |-> name, text |-> "thrown by verifyToken"]
           IN  /\ verification' = [kind |-> "rejected", error |-> error]
               /\ responses' = Append(responses, ErrorResponse(error))
        /\ mwPc' = "done"
        /\ UNCHANGED <<requiredScopes, authHeader, reqAuth, verifyCalls, nextCalls,
                       authSeenByNext, nextOutcome, notBearerVars>>

\* the request is over; the middleware waits for the next one
MwNextRequest ==
    /\ mwPc = "done"
    /\ mwPc' = "idle"
    /\ authHeader' = Undefined
    /\ reqAuth' = NoValue
    /\ verifyCalls' = <<>>
    /\ verification' = Pending
    /\ nextCalls' = 0
    /\ authSeenByNext' = NoValue
    /\ nextOutcome' = "none"
    /\ responses' = <<>>
    /\ UNCHANGED <<requiredScopes, notBearerVars>>

----------------------------------------------------------------------------
(* mcpAuthRouter and the metadata document (part_002, part_003, part_005,
   proxyProvider.ts:240-317) *)

DEFAULT_AUTHORIZATION_ENDPOINT == <<"/authorize">>
DEFAULT_TOKEN_ENDPOINT == <<"/token">>
DEFAULT_REGISTRATION_ENDPOINT == <<"/register">>
DEFAULT_REVOCATION_ENDPOINT == <<"/revoke">>
DEFAULT_METADATA_ENDPOINT == <<"/.well-known/oauth-authorization-server">>

\* a URL object by its components; search and hash are "" or start with
\* "?" and "#"
UrlOf(protocol, hostname, port, pathname, search, hash) ==
    [protocol |-> protocol, hostname |-> hostname, port |-> port,
     pathname |-> pathname, search |-> search, hash |-> hash]

\* URL.origin
Origin(u) ==
    u.protocol \o <<"//">> \o u.hostname
        \o (IF u.port = <<>> THEN <<>> ELSE <<":">> \o u.port)

\* URL.href
Href(u) == Origin(u) \o u.pathname \o u.search \o u.hash

\* options.issuerUrl: issuers the router accepts, at the root and under a
\* path, and issuers it refuses
IssuerUrls ==
    { UrlOf(<<"https:">>, <<"auth.example.com">>, <<>>, <<"/">>, <<>>, <<>>),
      UrlOf(<<"https:">>, <<"auth.example.com">>, <<>>, <<"/", "tenant">>, <<>>, <<>>),
      UrlOf(<<"http:">>, <<"localhost">>, <<"3000">>, <<"/">>, <<>>, <<>>),
      UrlOf(<<"http:">>, <<"127.0.0.1">>, <<>>, <<"/">>, <<>>, <<>>),
      UrlOf(<<"http:">>, <<"auth.example.com">>, <<>>, <<"/">>, <<>>, <<>>),
      UrlOf(<<"https:">>, <<"auth.example.com">>, <<>>, <<"/">>, <<"?", "q">>, <<>>),
      UrlOf(<<"https:">>, <<"auth.example.com">>, <<>>, <<"/">>, <<>>, <<"#", "f">>) }

\* options.serviceDocumentationUrl, which is optional
NoUrl == [type |-> "undefined"]
ServiceDocumentationUrls ==
    { NoUrl,
      UrlOf(<<"https:">>, <<"docs.example.com">>, <<>>, <<"/">>, <<>>, <<>>) }

\* serviceDocumentationUrl?.href
OptionalHref(u) == IF u = NoUrl THEN Undefined ELSE Href(u)

\* buildUrl of the handlers and `new URL(localPath, issuer).href` of part_003,
\* for a path that starts with "/": the path replaces the issuer's own path
BuildUrlByConcatenation(path, issuer) == Href(issuer) \o path

BuildUrl(path, issuer) == Origin(issuer) \o path

\* IssuerError without the test of issuer.hash
IssuerErrorWithoutHashTest(issuer) ==
    IF /\ issuer.protocol # <<"https:">>
       /\ issuer.hostname # <<"localhost">>
       /\ issuer.hostname # <<"127.0.0.1">>
    THEN <<"Issuer URL must be HTTPS">>
    ELSE IF issuer.search # <<>>
    THEN <<"Issuer URL must not have a query string">>
    ELSE Undefined

\* the three tests of the issuer: the message of the Error thrown, or
\* Undefined
IssuerError(issuer) ==
    IF /\ issuer.protocol # <<"https:">>
       /\ issuer.hostname # <<"localhost">>
       /\ issuer.hostname # <<"127.0.0.1">>
    THEN <<"Issuer URL must be HTTPS">>
    ELSE IF issuer.hash # <<>>
    THEN <<"Issuer URL must not have a fragment">>
    ELSE IF issuer.search # <<>>
    THEN <<"Issuer URL must not have a query string">>
    ELSE Undefined

\* provider instanceof ProxyOAuthServerProvider, the class of proxyProvider.ts
IsProxy == providerClass = "endpoints"

\* an array of strings, and undefined where an array is expected
ArrayOf(items) == [type |-> "array", items |-> items]

\* the fields of the metadata object that hold a string, and the one that may
\* be undefined and holds an array
StringFields ==
    { "issuer", "service_documentation", "authorization_endpoint",
      "token_endpoint", "revocation_endpoint", "registration_endpoint" }
ArrayFields == { "revocation_endpoint_auth_methods_supported" }

\* the metadata object literal, which the three assemblers share
MetadataObject(issuer, documentation, authorization_endpoint, token_endpoint, revocation_endpoint, revocation_methods, registration_endpoint) ==
    [issuer |-> Href(issuer),
     service_documentation |-> OptionalHref(documentation),
     authorization_endpoint |-> authorization_endpoint,
     response_types_supported |-> ArrayOf(<< <<"code">> >>),
     code_challenge_methods_supported |-> ArrayOf(<< <<"S256">> >>),
     token_endpoint |-> token_endpoint,
     token_endpoint_auth_methods_supported |-> ArrayOf(<< <<"client_secret_post">> >>),
     grant_types_supported |-> ArrayOf(<< <<"authorization_code">>, <<"refresh_token">> >>),
     revocation_endpoint |-> revocation_endpoint,
     revocation_endpoint_auth_methods_supported |-> revocation_methods,
     registration_endpoint |-> registration_endpoint]

\* metadataHandler of proxyProvider.ts with a revocation_endpoint whatever
\* the provider can do
MetadataProxyAwareAlwaysRevocation(issuer, documentation) ==
    LET authorization_endpoint ==
            IF IsProxy /\ Truthy(endpoints.authorizationUrl)
            THEN endpoints.authorizationUrl
            ELSE BuildUrl(DEFAULT_AUTHORIZATION_ENDPOINT, issuer)
        token_endpoint ==
            IF IsProxy /\ Truthy(endpoints.tokenUrl)
            THEN endpoints.tokenUrl
            ELSE BuildUrl(DEFAULT_TOKEN_ENDPOINT, issuer)
        revocation_endpoint ==
            IF IsProxy /\ Truthy(endpoints.revocationUrl)
            THEN endpoints.revocationUrl
            ELSE BuildUrl(DEFAULT_REVOCATION_ENDPOINT, issuer)
        registration_endpoint ==
            IF HasRegisterClient
            THEN IF IsProxy /\ Truthy(endpoints.registrationUrl)
                 THEN endpoints.registrationUrl
                 ELSE BuildUrl(DEFAULT_REGISTRATION_ENDPOINT, issuer)
            ELSE Undefined
    IN  MetadataObject(issuer, documentation, authorization_endpoint, token_endpoint,
                       revocation_endpoint,
                       IF Truthy(revocation_endpoint)
                       THEN ArrayOf(<< <<"client_secret_post">> >>) ELSE NoValue,
                       registration_endpoint)

\* metadataHandler of proxyProvider.ts: the metadata it assembles
MetadataProxyAware(issuer, documentation) ==
    LET authorization_endpoint ==
            IF IsProxy /\ Truthy(endpoints.authorizationUrl)
            THEN endpoints.authorizationUrl
            ELSE BuildUrl(DEFAULT_AUTHORIZATION_ENDPOINT, issuer)
        token_endpoint ==
            IF IsProxy /\ Truthy(endpoints.tokenUrl)
            THEN endpoints.tokenUrl
            ELSE BuildUrl(DEFAULT_TOKEN_ENDPOINT, issuer)
        revocation_endpoint ==
            IF HasRevokeToken
            THEN IF IsProxy /\ Truthy(endpoints.revocationUrl)
                 THEN endpoints.revocationUrl
                 ELSE BuildUrl(DEFAULT_REVOCATION_ENDPOINT, issuer)
            ELSE Undefined
        registration_endpoint ==
            IF HasRegisterClient
            THEN IF IsProxy /\ Truthy(endpoints.registrationUrl)
                 THEN endpoints.registrationUrl
                 ELSE BuildUrl(DEFAULT_REGISTRATION_ENDPOINT, issuer)
            ELSE Undefined
    IN  MetadataObject(issuer, documentation, authorization_endpoint, token_endpoint,
                       revocation_endpoint,
                       IF Truthy(revocation_endpoint)
                       THEN ArrayOf(<< <<"client_secret_post">> >>) ELSE NoValue,
                       registration_endpoint)

\* metadataHandler of part_005: every endpoint is built from the issuer
MetadataPlain(issuer, documentation) ==
    MetadataObject(issuer, documentation,
                   BuildUrl(DEFAULT_AUTHORIZATION_ENDPOINT, issuer),
                   BuildUrl(DEFAULT_TOKEN_ENDPOINT, issuer),
                   IF HasRevokeToken
                   THEN BuildUrl(DEFAULT_REVOCATION_ENDPOINT, issuer) ELSE Undefined,
                   IF HasRevokeToken
                   THEN ArrayOf(<< <<"client_secret_post">> >>) ELSE NoValue,
                   IF HasRegisterClient
                   THEN BuildUrl(DEFAULT_REGISTRATION_ENDPOINT, issuer) ELSE Undefined)

\* the local paths of part_003: "/register" and "/revoke" only for a provider
\* that can register and revoke
LocalRegistrationEndpoint == IF HasRegisterClient THEN <<"/register">> ELSE Undefined
LocalRevocationEndpoint == IF HasRevokeToken THEN <<"/revoke">> ELSE Undefined

\* getEndpointUrl of part_003 with the local URL before the upstream one
GetEndpointUrlLocalFirst(localPath, proxyUrlOfProvider, issuer) ==
    IF ~Truthy(localPath) THEN Undefined
    ELSE LET proxyUrl == IF IsProxy THEN proxyUrlOfProvider ELSE Undefined
         IN  OrElse(BuildUrl(localPath, issuer), proxyUrl)

\* getEndpointUrl of part_003; proxyUrlOfProvider is what getProxyUrl returns
\* for the provider
GetEndpointUrl(localPath, proxyUrlOfProvider, issuer) ==
    IF ~Truthy(localPath) THEN Undefined
    ELSE LET proxyUrl == IF IsProxy THEN proxyUrlOfProvider ELSE Undefined
         IN  OrElse(proxyUrl, BuildUrl(localPath, issuer))

\* the metadata mcpAuthRouter of part_003 assembles
MetadataOfRouter(issuer, documentation) ==
    MetadataObject(issuer, documentation,
                   OrElse(GetEndpointUrl(<<"/authorize">>, endpoints.authorizationUrl, issuer),
                          BuildUrl(<<"/authorize">>, issuer)),
                   OrElse(GetEndpointUrl(<<"/token">>, endpoints.tokenUrl, issuer),
                          BuildUrl(<<"/token">>, issuer)),
                   GetEndpointUrl(LocalRevocationEndpoint, endpoints.revocationUrl, issuer),
                   IF Truthy(LocalRevocationEndpoint)
                   THEN ArrayOf(<< <<"client_secret_post">> >>) ELSE NoValue,
                   GetEndpointUrl(LocalRegistrationEndpoint, endpoints.registrationUrl, issuer))

\* the routes mcpAuthRouter of part_002 mounts, in order
RoutesOfPart002 ==
    <<DEFAULT_AUTHORIZATION_ENDPOINT, DEFAULT_TOKEN_ENDPOINT, DEFAULT_METADATA_ENDPOINT>>
        \o (IF HasRegisterClient THEN <<DEFAULT_REGISTRATION_ENDPOINT>> ELSE <<>>)
        \o (IF HasRevokeToken THEN <<DEFAULT_REVOCATION_ENDPOINT>> ELSE <<>>)

\* RoutesOfPart003 with "/register" mounted whatever the provider can do
RoutesOfPart003AlwaysRegister ==
    << <<"/authorize">>, <<"/token">>, <<"/.well-known/oauth-authorization-server">>,
       <<"/register">> >>
        \o (IF Truthy(LocalRevocationEndpoint) THEN << <<"/revoke">> >> ELSE <<>>)

\* the routes mcpAuthRouter of part_003 mounts, in order
RoutesOfPart003 ==
    << <<"/authorize">>, <<"/token">>, <<"/.well-known/oauth-authorization-server">> >>
        \o (IF Truthy(LocalRegistrationEndpoint) THEN << <<"/register">> >> ELSE <<>>)
        \o (IF Truthy(LocalRevocationEndpoint) THEN << <<"/revoke">> >> ELSE <<>>)

\* res.json(metadata): JSON.stringify leaves out the fields that are undefined
JsonStringify(object) ==
    [k \in { f \in DOMAIN object :
                 /\ f \in StringFields => object[f] # Undefined
                 /\ f \in ArrayFields => object[f] # NoValue } |-> object[k]]

\* the methods of the requests to the metadata route
Methods == { "GET", "POST" }

\* which mcpAuthRouter with which metadataHandler and which provider: part_002
\* calls metadataHandler({provider, issuer, ...}), of proxyProvider.ts or of
\* part_005; part_003 assembles the metadata itself. A provider of part_004
\* has no revocationUrl and registrationUrl accessors, which the assemblers of
\* proxyProvider.ts and part_003 read
RouterVersions == { "part_002", "part_003" }
HandlerVersions == { "proxyAware", "plain", "object" }
Assembly(router, handler, class) ==
    \/ router = "part_002" /\ handler = "proxyAware" /\ class \in { "endpoints", "custom" }
    \/ router = "part_002" /\ handler = "plain" /\ class \in { "endpoints", "lazy", "custom" }
    \/ router = "part_003" /\ handler = "object" /\ class \in { "endpoints", "custom" }

\* no router
RouterAtRest ==
    /\ routerVersion = "part_002"
    /\ handlerVersion = "plain"
    /\ issuerUrl = UrlOf(<<"https:">>, <<"auth.example.com">>, <<>>, <<"/">>, <<>>, <<>>)
    /\ serviceDocumentationUrl = NoUrl
    /\ registerClientField = FALSE
    /\ routerPc = "unbuilt"
    /\ routerError = Undefined
    /\ routes = <<>>
    /\ servedMetadata = NoValue
    /\ metadataResponse = NoValue

\* mcpAuthRouter(options): it throws on an issuer it refuses, and else mounts
\* the routes, the metadata route with the metadata assembled
McpAuthRouter ==
    /\ routerPc = "unbuilt"
    /\ IF IssuerError(issuerUrl) # Undefined
       THEN /\ routerPc' = "threw"
            /\ routerError' = IssuerError(issuerUrl)
            /\ UNCHANGED <<routes, servedMetadata>>
       ELSE /\ routerPc' = "built"
            /\ routes' = IF routerVersion = "part_002"
                         THEN RoutesOfPart002 ELSE RoutesOfPart003
            /\ servedMetadata' =
                   CASE handlerVersion = "proxyAware" ->
                            MetadataProxyAware(issuerUrl, serviceDocumentationUrl)
                     [] handlerVersion = "plain" ->
                            MetadataPlain(issuerUrl, serviceDocumentationUrl)
                     [] handlerVersion = "object" ->
                            MetadataOfRouter(issuerUrl, serviceDocumentationUrl)
            /\ UNCHANGED routerError
    /\ UNCHANGED <<routerVersion, handlerVersion, issuerUrl, serviceDocumentationUrl,
                   registerClientField, metadataResponse, notRouterVars>>

\* what allowedMethods(['GET']) answers to another method
MethodNotAllowed ==
    [status |-> 405,
     allow |-> <<"GET">>,
     body |-> [error |-> "method_not_allowed"]]

\* a request to the metadata route of a router that was built
MetadataRequest ==
    /\ routerPc = "built"
    /\ \E method \in Methods :
           metadataResponse' =
               IF method = "GET"
               THEN [status |-> 200, body |-> JsonStringify(servedMetadata)]
               ELSE MethodNotAllowed
    /\ UNCHANGED <<routerVersion, handlerVersion, issuerUrl, serviceDocumentationUrl,
                   registerClientField, routerPc, routerError, routes, servedMetadata,
                   notRouterVars>>

\* a provider no operation is called on
ProviderAtRest ==
    /\ providerClass = "endpoints"
    /\ endpoints = [authorizationUrl |-> Undefined, tokenUrl |-> Undefined,
                    revocationUrl |-> Undefined, registrationUrl |-> Undefined]
    /\ revokeTokenField = FALSE
    /\ metadataUrl = Undefined
    /\ cachedMetadata = NoValue
    /\ calls = [c \in ProxyCallers |-> IdleCall]

\* requireBearerAuth(options) was called; no request yet
InitBearer ==
    /\ requiredScopes \in ScopeLists
    /\ NoRequest
    /\ ProviderAtRest
    /\ RouterAtRest

NextBearer ==
    \/ MwReceives
    \/ MwVerifyResolves
    \/ MwVerifyRejects
    \/ MwNextRequest

SpecBearer == InitBearer /\ [][NextBearer]_vars


----------------------------------------------------------------------------
(* ProxyOAuthServerProvider.verifyAccessToken (proxyProvider.ts) *)

\* the tokens verifyAccessToken is called with
AccessTokens == { <<"valid-token">>, <<"invalid-token">> }

\* what the verifyToken given to the constructor settles with: an AuthInfo,
\* or an error
VerifierResults ==
    { Resolved(info) : info \in AuthInfos }
        \cup { Thrown("Error", "Invalid token"),
               Thrown("InvalidTokenError", "Token has expired") }

\* verifyAccessToken(token) up to its suspension: `return this._verifyToken(token)`
\* calls the function once; verifierCalls are the tokens it was called with
ProxyVerifyAccessTokenCall(token) ==
    [op |-> "verifyAccessToken", pc |-> "verify", client |-> NoValue,
     args |-> token, requests |-> <<>>, responses |-> <<>>, redirects |-> <<>>,
     outcome |-> Pending, verifierCalls |-> <<token>>]

ProxyVerifyAccessToken ==
    \E c \in DOMAIN calls, token \in AccessTokens :
        /\ providerClass = "endpoints"
        /\ Starts(c, ProxyVerifyAccessTokenCall(token))

\* this._verifyToken settles, and verifyAccessToken with it
VerifierSettles ==
    \E c \in DOMAIN calls :
        /\ calls[c].pc = "verify"
        /\ \E result \in VerifierResults :
               calls' = [calls EXCEPT ![c] = Finish(calls[c], result)]
        /\ UNCHANGED <<providerClass, endpoints, metadataUrl, revokeTokenField,
                       cachedMetadata, notProviderVars>>

----------------------------------------------------------------------------
(* Specifications *)

\* a provider of proxyProvider.ts after its constructor
InitProxy ==
    /\ providerClass = "endpoints"
    /\ endpoints \in EndpointConfigs
    /\ revokeTokenField = ConstructorAssignsRevokeToken(endpoints)
    /\ metadataUrl = Undefined
    /\ cachedMetadata = NoValue
    /\ calls = [c \in ProxyCallers |-> IdleCall]
    /\ NoRequest
    /\ requiredScopes = <<>>
    /\ RouterAtRest

NextProxy ==
    \/ ProxyAuthorize
    \/ ProxyExchangeAuthorizationCode
    \/ ProxyExchangeRefreshToken
    \/ ProxyRevokeToken
    \/ ProxyRegisterClient
    \/ ProxyVerifyAccessToken
    \/ FetchSettles
    \/ JsonSettles
    \/ VerifierSettles
    \/ Returns

SpecProxy == InitProxy /\ [][NextProxy]_vars

\* a provider of part_004 after its constructor: revokeToken is a method of
\* the class, no field
InitLazy ==
    /\ providerClass = "lazy"
    /\ endpoints \in LazyEndpointConfigs
    /\ metadataUrl \in LazyMetadataUrls
    /\ revokeTokenField = FALSE
    /\ cachedMetadata = NoValue
    /\ calls = [c \in LazyCallers |-> IdleCall]
    /\ NoRequest
    /\ requiredScopes = <<>>
    /\ RouterAtRest

NextLazy ==
    \/ LazyAuthorize
    \/ LazyExchangeAuthorizationCode
    \/ LazyExchangeRefreshToken
    \/ LazyRevokeToken
    \/ LazyRegisterClient
    \/ MetadataFetchSettles
    \/ MetadataJsonSettles
    \/ FetchSettles
    \/ JsonSettles
    \/ Returns

SpecLazy == InitLazy /\ [][NextLazy]_vars

\* the options of mcpAuthRouter: a provider of proxyProvider.ts or of part_004
\* after its constructor, or a provider of another class, and an issuer
NoEndpoints ==
    [authorizationUrl |-> Undefined, tokenUrl |-> Undefined,
     revocationUrl |-> Undefined, registrationUrl |-> Undefined]

InitRouter ==
    /\ providerClass \in { "endpoints", "lazy", "custom" }
    /\ routerVersion \in RouterVersions
    /\ handlerVersion \in HandlerVersions
    /\ Assembly(routerVersion, handlerVersion, providerClass)
    /\ endpoints \in CASE providerClass = "endpoints" -> EndpointConfigs
                       [] providerClass = "lazy" -> LazyEndpointConfigs
                       [] providerClass = "custom" -> { NoEndpoints }
    /\ metadataUrl \in IF providerClass = "lazy" THEN LazyMetadataUrls ELSE { Undefined }
    /\ revokeTokenField \in BOOLEAN
    /\ providerClass = "endpoints" => revokeTokenField = ConstructorAssignsRevokeToken(endpoints)
    /\ providerClass = "lazy" => revokeTokenField = FALSE
    /\ registerClientField \in BOOLEAN
    /\ providerClass # "custom" => registerClientField = FALSE
    /\ cachedMetadata = NoValue
    /\ calls = [c \in ProxyCallers |-> IdleCall]
    /\ NoRequest
    /\ requiredScopes = <<>>
    /\ issuerUrl \in IssuerUrls
    /\ serviceDocumentationUrl \in ServiceDocumentationUrls
    /\ routerPc = "unbuilt"
    /\ routerError = Undefined
    /\ routes = <<>>
    /\ servedMetadata = NoValue
    /\ metadataResponse = NoValue

NextRouter ==
    \/ McpAuthRouter
    \/ MetadataRequest

SpecRouter == InitRouter /\ [][NextRouter]_vars

----------------------------------------------------------------------------
(* Reading a redirect URL back, as the upstream that receives it does *)

PercentDecoded(a, b) ==
    CASE <<a, b>> = <<"2", "6">> -> "&"
      [] <<a, b>> = <<"3", "D">> -> "="
      [] <<a, b>> = <<"2", "B">> -> "+"
      [] <<a, b>> = <<"2", "5">> -> "%"
      [] <<a, b>> = <<"2", "3">> -> "#"
      [] <<a, b>> = <<"3", "F">> -> "?"
      [] <<a, b>> = <<"3", "A">> -> ":"
      [] <<a, b>> = <<"2", "F">> -> "/"
      [] OTHER -> "\\invalid"

RECURSIVE FormDecode(_)
FormDecode(s) ==
    IF s = <<>> THEN <<>>
    ELSE IF Head(s) = "+" THEN <<" ">> \o FormDecode(Tail(s))
    ELSE IF Head(s) = "%" /\ Len(s) >= 3
    THEN <<PercentDecoded(s[2], s[3])>> \o FormDecode(SubSeq(s, 4, Len(s)))
    ELSE <<Head(s)>> \o FormDecode(Tail(s))

\* the query of a URL: what follows the first "?", up to the fragment
QueryString(url) ==
    LET h == IndexOf(url, "#")
        beforeHash == IF h = 0 THEN url ELSE SubSeq(url, 1, h - 1)
        q == IndexOf(beforeHash, "?")
    IN  IF q = 0 THEN <<>> ELSE SubSeq(beforeHash, q + 1, Len(beforeHash))

\* the name/value pairs of a URL's query, in order, decoded
QueryPairs(url) ==
    LET qs == QueryString(url)
        parts == IF qs = <<>> THEN <<>> ELSE Split(qs, "&")
    IN  [i \in 1..Len(parts) |->
            LET e == IndexOf(parts[i], "=")
            IN  IF e = 0 THEN <<FormDecode(parts[i]), <<>>>>
                ELSE <<FormDecode(SubSeq(parts[i], 1, e - 1)),
                       FormDecode(SubSeq(parts[i], e + 1, Len(parts[i])))>>]

\* the pairs of a list, as a set
PairSet(ps) == { ps[i] : i \in 1..Len(ps) }

\* the calls that are not idle
ActiveCalls == { c \in DOMAIN calls : calls[c].pc # "idle" }

----------------------------------------------------------------------------
(* C2 *)

\* the parameters authorize must send for a client and its params
ExpectedAuthorizeParams(client, params) ==
    { <<<<"client_id">>, client.client_id>>,
      <<<<"response_type">>, <<"code">>>>,
      <<<<"redirect_uri">>, params.redirectUri>>,
      <<<<"code_challenge">>, params.codeChallenge>>,
      <<<<"code_challenge_method">>, <<"S256">>>> }
    \cup (IF Truthy(params.state) THEN { <<<<"state">>, params.state>> } ELSE {})
    \cup (IF params.scopes # Undefined /\ params.scopes # <<>>
          THEN { <<<<"scope">>, Join(params.scopes, <<" ">>)>> } ELSE {})

\* C2: with an authorization URL configured, authorize issues exactly one
\* redirect, and the query of the redirect URL, read back, holds exactly
\* client_id, response_type=code, redirect_uri, code_challenge and
\* code_challenge_method=S256, state when a state was given, and scope (the
\* scopes joined by spaces) when scopes were given and not empty: each once,
\* and nothing else.
C2_AuthorizeRedirectParams ==
    \A c \in ActiveCalls :
        (calls[c].op = "authorize" /\ Truthy(endpoints.authorizationUrl)) =>
            /\ calls[c].pc = "done"
            /\ calls[c].outcome = ResolvedVoid
            /\ Len(calls[c].redirects) = 1
            /\ LET pairs == QueryPairs(calls[c].redirects[1])
                   expected == ExpectedAuthorizeParams(calls[c].client, calls[c].args)
               IN  /\ PairSet(pairs) = expected
                   /\ Len(pairs) = Cardinality(expected)

\* an authorize with a state holding "&" and two scopes, to an authorization
\* URL that came with a query and a fragment of its own
C2_Witness ==
    \E c \in ActiveCalls :
        /\ calls[c].op = "authorize"
        /\ IndexOf(endpoints.authorizationUrl, "?") # 0
        /\ calls[c].args.state = <<"x", "&", "y">>
        /\ calls[c].args.scopes = << <<"r">>, <<"w">> >>
        /\ Len(calls[c].redirects) = 1

----------------------------------------------------------------------------
(* C3 *)

\* the error of an operation whose endpoint is not configured: the code has
\* one class for it, Error, and tells it by its message
IsConfigurationError(outcome) ==
    /\ outcome.kind = "rejected"
    /\ outcome.error.name = "Error"
    /\ outcome.error.text \in { "No authorization endpoint configured",
                                "No token endpoint configured" }

\* the endpoint an operation requires
RequiredEndpoint(op) ==
    CASE op = "authorize" -> endpoints.authorizationUrl
      [] op \in {"exchangeAuthorizationCode", "exchangeRefreshToken"} -> endpoints.tokenUrl

\* C3: authorize without an authorization URL, and exchangeAuthorizationCode
\* and exchangeRefreshToken without a token URL, fail with the
\* not-configured error at once: the call never suspends, sends no upstream
\* request and issues no redirect.
C3_UnconfiguredFailsBeforeAnyCall ==
    \A c \in ActiveCalls :
        (/\ calls[c].op \in {"authorize", "exchangeAuthorizationCode",
                             "exchangeRefreshToken"}
         /\ ~Truthy(RequiredEndpoint(calls[c].op))) =>
            /\ calls[c].pc = "done"
            /\ IsConfigurationError(calls[c].outcome)
            /\ calls[c].requests = <<>>
            /\ calls[c].responses = <<>>
            /\ calls[c].redirects = <<>>

\* a token exchange called on a provider without a token URL
C3_Witness ==
    \E c \in ActiveCalls :
        /\ calls[c].op = "exchangeAuthorizationCode"
        /\ endpoints.tokenUrl = Undefined
        /\ calls[c].pc = "done"

----------------------------------------------------------------------------
(* C4 *)

UpstreamCalls == { "exchangeAuthorizationCode", "exchangeRefreshToken",
                   "revokeToken", "registerClient" }

\* C4: whenever the upstream has answered a token exchange, a refresh, a
\* revocation or a registration with a status outside 200..299, the call has
\* failed with ServerError (the code's upstream error) whose message carries
\* that status; it returns nothing.
C4_NonOkIsUpstreamError ==
    \A c \in ActiveCalls :
        (/\ calls[c].op \in UpstreamCalls
         /\ calls[c].responses # <<>>
         /\ LastResponse(calls[c]).type = "response"
         /\ ~(LastResponse(calls[c]).status \in 200..299)) =>
            /\ calls[c].pc = "done"
            /\ calls[c].outcome.kind = "rejected"
            /\ calls[c].outcome.error.name = "ServerError"
            /\ calls[c].outcome.error.text = FailureText(calls[c].op)
            /\ calls[c].outcome.error.status = LastResponse(calls[c]).status

\* a token exchange the upstream answered with 400
C4_Witness ==
    \E c \in ActiveCalls :
        /\ calls[c].op = "exchangeAuthorizationCode"
        /\ calls[c].responses # <<>>
        /\ LastResponse(calls[c]).type = "response"
        /\ LastResponse(calls[c]).status = 400
        /\ calls[c].outcome.kind = "rejected"

----------------------------------------------------------------------------
(* C1 *)

\* C1: in every reachable state the provider has revokeToken exactly when a
\* revocation URL was given to its constructor, and its clientsStore has
\* registerClient exactly when a registration URL was given.
C1_CapabilityIffUrlSupplied ==
    /\ HasRevokeToken <=> Truthy(endpoints.revocationUrl)
    /\ HasRegisterClient <=> Truthy(endpoints.registrationUrl)

----------------------------------------------------------------------------
(* C9 *)

\* the callers whose fetch of the upstream metadata is in flight
MetadataFetchesInFlight == { c \in DOMAIN calls : calls[c].pc = "metaFetch" }

\* C9: at most one fetch of the upstream metadata is in flight at any time.
C9_SingleMetadataFetchInFlight == Cardinality(MetadataFetchesInFlight) <= 1

----------------------------------------------------------------------------
(* C5 *)

\* the set of the scopes of a list
ScopeSet(list) == { list[i] : i \in 1..Len(list) }

\* C5: once verifyToken has resolved with an AuthInfo, the middleware has
\* called next() (once) exactly when the set of the required scopes is a
\* subset of the set of the AuthInfo's scopes, compared as exact strings; when
\* it is not, next() was not called and the response is the 403 of
\* InsufficientScopeError.
C5_AuthorizedIffScopesSubset ==
    (mwPc = "done" /\ verification.kind = "resolved") =>
        LET R == ScopeSet(requiredScopes)
            S == ScopeSet(verification.value.scopes)
        IN  /\ (nextCalls = 1) <=> (R \subseteq S)
            /\ (nextCalls = 0) <=> ~(R \subseteq S)
            /\ ~(R \subseteq S) =>
                   /\ Len(responses) = 1
                   /\ responses[1].status = 403
                   /\ responses[1].body.error = "insufficient_scope"
                   /\ reqAuth = NoValue

\* both cases: two required scopes granted in the other order; and a required
\* scope granted only in another case
C5_Witness ==
    /\ mwPc = "done"
    /\ verification.kind = "resolved"
    /\ \/ /\ requiredScopes = << <<"read">>, <<"READ">> >>
          /\ verification.value.scopes = << <<"READ">>, <<"read">> >>
          /\ nextCalls = 1
       \/ /\ requiredScopes = << <<"read">> >>
          /\ verification.value.scopes = << <<"READ">> >>
          /\ nextCalls = 0

----------------------------------------------------------------------------
(* C10 *)

\* the scheme of a header: what stands before its first space
SchemeOf(header) ==
    LET i == IndexOf(header, " ")
    IN  IF i = 0 THEN header ELSE SubSeq(header, 1, i - 1)

\* the credentials of a header: what follows its first space
CredentialsOf(header) ==
    LET i == IndexOf(header, " ")
    IN  IF i = 0 THEN <<>> ELSE SubSeq(header, i + 1, Len(header))

\* the header is absent, or its scheme is not Bearer in any case, or it
\* carries no token
BadBearerHeader(header) ==
    \/ header = Undefined
    \/ ToLowerCase(SchemeOf(header)) # <<"bearer">>
    \/ CredentialsOf(header) = <<>>

\* C10: for a request whose Authorization header is absent, not of the Bearer
\* scheme, or without a token, the middleware has answered 401 with the
\* invalid_token body and a WWW-Authenticate challenge, and it has not called
\* verifyToken, not set req.auth and not called next().
C10_BadHeaderIs401WithoutVerification ==
    (mwPc # "idle" /\ BadBearerHeader(authHeader)) =>
        /\ mwPc = "done"
        /\ Len(responses) = 1
        /\ responses[1].status = 401
        /\ responses[1].body.error = "invalid_token"
        /\ responses[1].wwwAuthenticate.set
        /\ responses[1].wwwAuthenticate.error = "invalid_token"
        /\ verifyCalls = <<>>
        /\ verification = Pending
        /\ reqAuth = NoValue
        /\ nextCalls = 0

\* a header of another scheme, with a token, answered
C10_Witness ==
    /\ mwPc = "done"
    /\ authHeader = <<"Basic", " ", "tok">>
    /\ Len(responses) = 1

----------------------------------------------------------------------------
(* C6 *)

\* the document a GET of the metadata route was answered with
Served == metadataResponse # NoValue /\ metadataResponse.status = 200
Document == metadataResponse.body

\* C6: the served metadata document lacks revocation_endpoint and
\* revocation_endpoint_auth_methods_supported exactly when the provider has no
\* revokeToken, and lacks registration_endpoint exactly when its clientsStore
\* has no registerClient; a field that is there holds a non-empty URL.
C6_EndpointOmittedIffCapabilityAbsent ==
    Served =>
        /\ "revocation_endpoint" \notin DOMAIN Document <=> ~HasRevokeToken
        /\ "revocation_endpoint_auth_methods_supported" \notin DOMAIN Document
               <=> ~HasRevokeToken
        /\ "registration_endpoint" \notin DOMAIN Document <=> ~HasRegisterClient
        /\ HasRevokeToken => Len(Document.revocation_endpoint) > 0
        /\ HasRegisterClient => Len(Document.registration_endpoint) > 0

\* a provider that can register and cannot revoke, whose revocation URL is
\* the empty string, served by the handler of proxyProvider.ts
C6_Witness ==
    /\ Served
    /\ handlerVersion = "proxyAware"
    /\ providerClass = "endpoints"
    /\ endpoints.revocationUrl = <<>>
    /\ ~HasRevokeToken
    /\ HasRegisterClient
    /\ "registration_endpoint" \in DOMAIN Document
    /\ "revocation_endpoint" \notin DOMAIN Document

----------------------------------------------------------------------------
(* C7 *)

\* the paths the router mounted
Mounted == { routes[i] : i \in 1..Len(routes) }

\* the provider was constructed by a ProxyOAuthServerProvider without a
\* revocation URL
ConstructedWithoutRevocationUrl ==
    providerClass \in { "endpoints", "lazy" } /\ ~Truthy(endpoints.revocationUrl)

\* C7: a router that was built has mounted /authorize, /token and
\* /.well-known/oauth-authorization-server, has mounted /revoke exactly when
\* the provider has revokeToken and /register exactly when its clientsStore has
\* registerClient; and a provider constructed without a revocation URL has no
\* /revoke route.
C7_RoutesFollowCapabilities ==
    routerPc = "built" =>
        /\ { <<"/authorize">>, <<"/token">>,
             <<"/.well-known/oauth-authorization-server">> } \subseteq Mounted
        /\ <<"/revoke">> \in Mounted <=> HasRevokeToken
        /\ <<"/register">> \in Mounted <=> HasRegisterClient
        /\ ConstructedWithoutRevocationUrl => <<"/revoke">> \notin Mounted

----------------------------------------------------------------------------
(* C8 *)

\* the endpoint kinds: the field of the document, the accessor of the
\* delegating provider, and the path of the local handler
EndpointKinds ==
    { [field |-> "authorization_endpoint", accessor |-> "authorizationUrl",
       path |-> <<"/authorize">>],
      [field |-> "token_endpoint", accessor |-> "tokenUrl", path |-> <<"/token">>],
      [field |-> "revocation_endpoint", accessor |-> "revocationUrl",
       path |-> <<"/revoke">>],
      [field |-> "registration_endpoint", accessor |-> "registrationUrl",
       path |-> <<"/register">>] }

\* the provider is a delegating one that has an upstream URL for the kind
ExplicitUpstreamUrl(kind) ==
    providerClass = "endpoints" /\ Truthy(endpoints[kind.accessor])

\* the URL of the handler the router mounted at the path: the path, resolved
\* against the issuer
LocalUrl(path) ==
    issuerUrl.protocol \o <<"//">> \o issuerUrl.hostname
        \o (IF issuerUrl.port = <<>> THEN <<>> ELSE <<":">> \o issuerUrl.port)
        \o path

\* C8: in a document assembled by metadataHandler of proxyProvider.ts or by
\* mcpAuthRouter of part_003, every endpoint that is advertised is the
\* provider's upstream URL for it, unchanged, when the provider is a delegating
\* one with such a URL, and else the local path of a handler the router
\* mounted, resolved against the issuer.
C8_EndpointUrlPrecedence ==
    (Served /\ handlerVersion \in { "proxyAware", "object" }) =>
        \A kind \in EndpointKinds :
            kind.field \in DOMAIN Document =>
                IF ExplicitUpstreamUrl(kind)
                THEN Document[kind.field] = endpoints[kind.accessor]
                ELSE /\ Document[kind.field] = LocalUrl(kind.path)
                     /\ kind.path \in Mounted

\* under an issuer with a path: an upstream authorization URL with a query
\* and a fragment advertised as it is, next to a local token endpoint at the
\* root of the issuer's origin
C8_Witness ==
    /\ Served
    /\ handlerVersion = "object"
    /\ providerClass = "endpoints"
    /\ issuerUrl.pathname = <<"/", "tenant">>
    /\ endpoints.authorizationUrl = <<"AUTH", "?", "k", "=", "v", "#", "f">>
    /\ Document.authorization_endpoint = endpoints.authorizationUrl
    /\ ~Truthy(endpoints.tokenUrl)
    /\ Document.token_endpoint = <<"https:", "//", "auth.example.com", "/token">>
    /\ "revocation_endpoint" \in DOMAIN Document
    /\ Document.revocation_endpoint = <<"REVOKE">>

----------------------------------------------------------------------------
(* C11 *)

\* the request in hand ended with verifyToken rejecting
VerificationRejected == mwPc = "done" /\ verification.kind = "rejected"

\* C11: when verifyToken rejects, the response is that of the error's own
\* kind if it is one of the OAuth errors, and else that of InvalidTokenError:
\* 401 with the invalid_token body and WWW-Authenticate challenge.
C11_VerifierErrorTaggedInvalidToken ==
    VerificationRejected =>
        /\ Len(responses) = 1
        /\ IF verification.error.name \in OAuthErrorNames
           THEN responses[1].body.error = ErrorCode(verification.error.name)
           ELSE /\ responses[1].status = 401
                /\ responses[1].body.error = "invalid_token"
                /\ responses[1].wwwAuthenticate.set
                /\ responses[1].wwwAuthenticate.error = "invalid_token"

----------------------------------------------------------------------------
(* C12 *)

\* the token of the request in hand was verified, and its AuthInfo's
\* expiresAt lies before the time of the request
ExpiredTokenPresented ==
    /\ mwPc = "done"
    /\ verification.kind = "resolved"
    /\ verification.value.expired

\* C12: a request whose token is expired is answered 401 invalid_token, and
\* next() is not called for it.
C12_ExpiredTokenNeverAuthorized ==
    ExpiredTokenPresented =>
        /\ nextCalls = 0
        /\ reqAuth = NoValue
        /\ Len(responses) = 1
        /\ responses[1].status = 401
        /\ responses[1].body.error = "invalid_token"

----------------------------------------------------------------------------
(* C13 *)

\* no error
NoError == [name |-> "none"]

\* the error raised while the request in hand was processed: by the header
\* checks, by verifyToken, by the scope check or by next()
RaisedError ==
    IF mwPc # "done" THEN NoError
    ELSE IF verifyCalls = <<>> THEN [name |-> "InvalidTokenError"]
    ELSE IF verification.kind = "rejected" THEN [name |-> verification.error.name]
    ELSE IF nextCalls = 0 THEN [name |-> "InsufficientScopeError"]
    ELSE IF nextOutcome # "returned" THEN [name |-> nextOutcome]
    ELSE NoError

\* the status, the code and the challenge the mapping gives an error kind
MappedStatus(name) ==
    CASE name = "InvalidTokenError" -> 401
      [] name = "InsufficientScopeError" -> 403
      [] name = "ServerError" -> 500
      [] name = "InvalidRequestError" -> 400
      [] OTHER -> 500

MappedCode(name) ==
    CASE name = "InvalidTokenError" -> "invalid_token"
      [] name = "InsufficientScopeError" -> "insufficient_scope"
      [] name = "ServerError" -> "server_error"
      [] name = "InvalidRequestError" -> "invalid_request"
      [] OTHER -> "server_error"

\* C13: every error raised while a request is processed is answered by
\* exactly one response: 401 for InvalidTokenError and 403 for
\* InsufficientScopeError, both with a WWW-Authenticate challenge of the
\* error's code, 500 for ServerError, 400 for another OAuth error, and for
\* anything else 500 server_error with the fixed description; WWW-Authenticate
\* is set on 401 and 403 only.
C13_ErrorMapping ==
    /\ RaisedError # NoError =>
           /\ Len(responses) = 1
           /\ responses[1].status = MappedStatus(RaisedError.name)
           /\ responses[1].body.error = MappedCode(RaisedError.name)
           /\ responses[1].wwwAuthenticate.set =>
                  responses[1].wwwAuthenticate.error = MappedCode(RaisedError.name)
           /\ RaisedError.name = "Error" =>
                  responses[1].body.error_description = "Internal Server Error"
    /\ \A i \in 1..Len(responses) :
           responses[i].wwwAuthenticate.set <=> responses[i].status \in { 401, 403 }

\* an error of no OAuth class thrown by verifyToken, answered by the generic 500
C13_Witness ==
    /\ mwPc = "done"
    /\ verification.kind = "rejected"
    /\ verification.error.name = "Error"
    /\ Len(responses) = 1
    /\ responses[1].status = 500
    /\ responses[1].body.error_description = "Internal Server Error"

----------------------------------------------------------------------------
(* C14 *)

\* the three rules of an issuer: https unless the host is localhost or
\* 127.0.0.1, no fragment, no query string
IssuerRules(u) ==
    /\ u.protocol = <<"https:">> \/ u.hostname \in { <<"localhost">>, <<"127.0.0.1">> }
    /\ u.hash = <<>>
    /\ u.search = <<>>

\* C14: once mcpAuthRouter was called it has thrown exactly when the issuer
\* breaks one of the three rules, and then no route is mounted and no metadata
\* served; under an issuer that keeps the three rules the router is built.
C14_IssuerValidation ==
    routerPc # "unbuilt" =>
        /\ routerPc = "threw" <=> ~IssuerRules(issuerUrl)
        /\ routerPc = "built" <=> IssuerRules(issuerUrl)
        /\ routerPc = "threw" =>
               /\ routerError # Undefined
               /\ routes = <<>>
               /\ servedMetadata = NoValue
               /\ metadataResponse = NoValue

\* an https issuer with a fragment, refused
C14_Witness ==
    /\ routerPc = "threw"
    /\ issuerUrl.protocol = <<"https:">>
    /\ issuerUrl.hash = <<"#", "f">>
    /\ routerError = <<"Issuer URL must not have a fragment">>

----------------------------------------------------------------------------
(* C15 *)

\* the TokenSet shape: an access token and a token type
TokenSetShape(data) == "access_token" \in DOMAIN data /\ "token_type" \in DOMAIN data

\* the token exchanges that have settled after a 2xx answer of the token
\* endpoint
ExchangesAnswered ==
    { c \in ActiveCalls :
          /\ calls[c].op \in { "exchangeAuthorizationCode", "exchangeRefreshToken" }
          /\ calls[c].pc = "done"
          /\ calls[c].requests # <<>>
          /\ calls[c].requests[Len(calls[c].requests)].method = "POST"
          /\ Len(calls[c].responses) = Len(calls[c].requests)
          /\ LastResponse(calls[c]).type = "response"
          /\ LastResponse(calls[c]).status \in 200..299 }

\* C15: a token exchange the upstream answered 2xx returns the body unchanged
\* when it has the TokenSet shape; otherwise it fails and returns nothing, with
\* the validation error (ZodError) when the body is JSON of another shape.
C15_MalformedTokensRejected ==
    \A c \in ExchangesAnswered :
        LET body == LastResponse(calls[c]).body
        IN  IF body.json /\ TokenSetShape(body.data)
            THEN calls[c].outcome = Resolved(body.data)
            ELSE /\ calls[c].outcome.kind = "rejected"
                 /\ body.json => calls[c].outcome.error.name = "ZodError"

----------------------------------------------------------------------------
(* C16 *)

\* the token of a header: its credentials up to their first space
TokenOf(header) == SchemeOf(CredentialsOf(header))

\* C16: next() is not called before verifyToken has resolved; and when it was
\* called, it was called once, after exactly one call of verifyToken with the
\* header's token, with the required scopes granted, and it found req.auth
\* set to the AuthInfo verifyToken resolved with.
C16_SuccessPathOrder ==
    /\ mwPc \in { "idle", "verifying" } => nextCalls = 0 /\ reqAuth = NoValue
    /\ mwPc = "verifying" => verifyCalls = << TokenOf(authHeader) >>
    /\ nextCalls > 0 =>
           /\ nextCalls = 1
           /\ verifyCalls = << TokenOf(authHeader) >>
           /\ verification.kind = "resolved"
           /\ ScopeSet(requiredScopes) \subseteq ScopeSet(verification.value.scopes)
           /\ authSeenByNext = verification.value
           /\ reqAuth = verification.value

\* a request with a token and the required scopes, passed on
C16_Witness ==
    /\ mwPc = "done"
    /\ authHeader = <<"BEARER", " ", "tok">>
    /\ verifyCalls = << <<"tok">> >>
    /\ requiredScopes = << <<"read">> >>
    /\ nextCalls = 1
    /\ nextOutcome = "returned"
    /\ authSeenByNext.scopes = << <<"READ">>, <<"read">> >>

----------------------------------------------------------------------------
(* C17 *)

\* the endpoint of an operation that calls the upstream
EndpointOf(op) ==
    CASE op \in {"exchangeAuthorizationCode", "exchangeRefreshToken"} -> endpoints.tokenUrl
      [] op = "revokeToken" -> endpoints.revocationUrl
      [] op = "registerClient" -> endpoints.registrationUrl

\* C17: a token exchange, a refresh, a revocation and a registration have
\* sent at most one request, to their own endpoint, and exactly one when the
\* upstream answered or the fetch failed; verifyAccessToken has called the
\* given verifyToken exactly once, with its token, however it settled.
C17_SingleAttempt ==
    \A c \in ActiveCalls :
        /\ calls[c].op \in UpstreamCalls =>
               /\ Len(calls[c].requests) <= 1
               /\ Len(calls[c].responses) <= Len(calls[c].requests)
               /\ \A i \in 1..Len(calls[c].requests) :
                      calls[c].requests[i].url = EndpointOf(calls[c].op)
        /\ calls[c].op = "verifyAccessToken" =>
               /\ calls[c].verifierCalls = << calls[c].args >>
               /\ calls[c].requests = <<>>

\* a refresh the upstream answered 500, settled after its one request
C17_Witness ==
    \E c \in ActiveCalls :
        /\ calls[c].pc = "done"
        /\ calls[c].op = "exchangeRefreshToken"
        /\ calls[c].outcome.kind = "rejected"
        /\ Len(calls[c].requests) = 1
        /\ Len(calls[c].responses) = 1
        /\ calls[c].responses[1].type = "response"
        /\ calls[c].responses[1].status = 500

----------------------------------------------------------------------------
(* C18 *)

\* the name/value pairs the receiver of a form-encoded body reads
FormPairs(body) == QueryPairs(<<"?">> \o ParamsToString(body))

\* the four parameters of a code exchange
ExpectedCodeExchangeParams(client, code) ==
    { << <<"grant_type">>, <<"authorization_code">> >>,
      << <<"client_id">>, client.client_id >>,
      << <<"client_secret">>,
         IF client.client_secret = Undefined THEN <<>> ELSE client.client_secret >>,
      << <<"code">>, code >> }

\* C18: exchangeAuthorizationCode on a provider with a token URL has sent one
\* request, a form-encoded POST to the token URL, whose parameters are exactly
\* grant_type=authorization_code, client_id, client_secret (empty for a client
\* without a secret) and code, whether or not the caller passed a PKCE
\* verifier.
C18_CodeExchangeForm ==
    \A c \in ActiveCalls :
        (calls[c].op = "exchangeAuthorizationCode" /\ Truthy(endpoints.tokenUrl)) =>
            /\ Len(calls[c].requests) = 1
            /\ calls[c].requests[1].method = "POST"
            /\ calls[c].requests[1].contentType = "application/x-www-form-urlencoded"
            /\ calls[c].requests[1].url = endpoints.tokenUrl
            /\ LET pairs == FormPairs(calls[c].requests[1].body)
               IN  /\ PairSet(pairs) = ExpectedCodeExchangeParams(calls[c].client, calls[c].args)
                   /\ Len(pairs) = 4

\* a client without a secret exchanging a code that needs encoding, with a
\* PKCE verifier passed
C18_Witness ==
    \E c \in ActiveCalls :
        /\ calls[c].op = "exchangeAuthorizationCode"
        /\ calls[c].client.client_secret = Undefined
        /\ calls[c].args = <<"a", "&", "b", "=", " ">>
        /\ calls[c].ignored = <<"v", "e", "r">>
        /\ Len(calls[c].requests) = 1
        /\ << <<"client_secret">>, <<>> >> \in PairSet(FormPairs(calls[c].requests[1].body))

----------------------------------------------------------------------------
(* C19 *)

\* a fetch of the metadata has succeeded: only `this._metadata = await
\* response.json()` takes the cache from its first value, undefined
MetadataFetchSucceeded == cachedMetadata # NoValue

\* this step starts a fetch of the upstream metadata
StartsMetadataFetch ==
    \E c \in DOMAIN calls : calls[c].pc # "metaFetch" /\ calls'[c].pc = "metaFetch"

\* this step ends a fetch of the metadata in failure: the fetch or the
\* reading of its body throws
MetadataFetchFails ==
    \E c \in DOMAIN calls :
        /\ calls[c].pc \in { "metaFetch", "metaJson" }
        /\ calls'[c].pc = "done"
        /\ calls'[c].outcome.kind = "rejected"
        /\ calls'[c].outcome.error.name \in { "TypeError", "ServerError", "SyntaxError" }
        /\ Len(calls'[c].requests) = 1

\* C19: once a fetch of the upstream metadata has succeeded, the document it
\* cached stays the cached one and no step starts a fetch of the metadata;
\* and a fetch that fails leaves the cache as it was.
C19_NoFetchAfterSuccess ==
    [][ /\ MetadataFetchSucceeded => ~StartsMetadataFetch
        /\ MetadataFetchSucceeded => cachedMetadata' = cachedMetadata
        /\ MetadataFetchFails => cachedMetadata' = cachedMetadata ]_vars

----------------------------------------------------------------------------
(* C20 *)

\* C20: a request the middleware is done with was either passed to next(),
\* once, with no response written by the middleware, or answered by exactly
\* one response without next() being called; before that, neither has
\* happened.
C20_NextOrOneResponse ==
    /\ mwPc = "done" =>
           \/ nextCalls = 1 /\ responses = <<>>
           \/ nextCalls = 0 /\ Len(responses) = 1
    /\ mwPc # "done" => nextCalls = 0 /\ responses = <<>>

----------------------------------------------------------------------------
(* C21 *)

\* C21: in the document a router serves, revocation_endpoint is there exactly
\* when the router mounted /revoke and registration_endpoint exactly when it
\* mounted /register; and an endpoint advertised at a local path under the
\* issuer has a handler mounted at that path.
C21_AdvertisedIffMounted ==
    Served =>
        /\ "revocation_endpoint" \in DOMAIN Document <=> <<"/revoke">> \in Mounted
        /\ "registration_endpoint" \in DOMAIN Document <=> <<"/register">> \in Mounted
        /\ \A kind \in EndpointKinds :
               (/\ kind.field \in DOMAIN Document
                /\ Document[kind.field] = LocalUrl(kind.path)) => kind.path \in Mounted

\* the router of part_003 with a provider of another class that can revoke
\* and cannot register: /revoke advertised under the issuer and mounted,
\* /register neither
C21_Witness ==
    /\ Served
    /\ routerVersion = "part_003"
    /\ providerClass = "custom"
    /\ "revocation_endpoint" \in DOMAIN Document
    /\ Document.revocation_endpoint = LocalUrl(<<"/revoke">>)
    /\ <<"/revoke">> \in Mounted
    /\ "registration_endpoint" \notin DOMAIN Document
    /\ <<"/register">> \notin Mounted

====
